---- MODULE Spec2Model ----
(***************************************************************************)
(* Translation gateway (Express): four POST /api/translate/<provider>      *)
(* handlers, each validate -> build prompt -> one provider call -> unwrap  *)
(* -> respond, inside one try/catch.  src/server.js holds the gemini,       *)
(* claude and openai handlers line for line; the model follows the file    *)
(* that has all four.                                                      *)
(*                                                                         *)
(* JavaScript values are records tagged by t; a completion is either a     *)
(* normal value or a thrown value.  A request is a process whose position  *)
(* (pc) is the await it is suspended at.                                   *)
(***************************************************************************)
EXTENDS Integers, Sequences, FiniteSets, TLC

VARIABLES
  build,    \* which express/node the process runs on (fixed at start)
  alive,    \* the node process is running
  pc,       \* per request: position of its handler
  req,      \* per request: the endpoint called and req.body
  local,    \* per request: the value the handler is awaiting
  calls,    \* per request: outbound provider calls made, in order
  settled,  \* per request: how the provider call settled (history)
  sent      \* per request: HTTP responses written, in order

vars == <<build, alive, pc, req, local, calls, settled, sent>>

\* Number of requests that may be in flight together.
NumRequests == 2

Reqs == 1..NumRequests

(***************************************************************************)
(* JavaScript values                                                       *)
(***************************************************************************)
Undefined == [t |-> "undefined"]
Null == [t |-> "null"]
Str(s) == [t |-> "string", s |-> s]
Obj(f) == [t |-> "object", f |-> f]
Arr(a) == [t |-> "array", a |-> a]
Fn(c) == [t |-> "function", ret |-> c]
ErrorObj(m) == Obj([message |-> Str(m)])

Normal(v) == [thrown |-> FALSE, v |-> v]
Throw(e) == [thrown |-> TRUE, v |-> e]

Nullish(v) == v.t \in {"undefined", "null"}

\* ToBoolean, as used by !x, x ? a : b and x || y
Truthy(v) == ~Nullish(v) /\ ~(v.t = "string" /\ v.s = "")

\* x || y
OrElse(v, w) == IF Truthy(v) THEN v ELSE w

\* ${v} in a template literal
TemplateStr(v) ==
  CASE v.t = "string" -> v.s
    [] v.t = "undefined" -> "undefined"
    [] v.t = "null" -> "null"
    [] OTHER -> "[object Object]"

\* v.k : a TypeError on undefined and null
Get(v, k) ==
  IF Nullish(v) THEN Throw(ErrorObj("Cannot read properties of " \o v.t))
  ELSE IF v.t = "object" /\ k \in DOMAIN v.f THEN Normal(v.f[k])
  ELSE Normal(Undefined)

\* v?.k
OptGet(v, k) ==
  IF Nullish(v) THEN Undefined ELSE Get(v, k).v

\* v?.[i]  (i counted from 0)
OptIdx(v, i) ==
  IF Nullish(v) THEN Undefined
  ELSE IF v.t = "array" /\ i < Len(v.a) THEN v.a[i + 1]
  ELSE Undefined

\* v() : a TypeError when v is not a function
Call(v) ==
  IF v.t = "function" THEN v.ret
  ELSE Throw(ErrorObj("is not a function"))

\* JSON.stringify of an object literal, as the client parses it back:
\* a field whose value is undefined is left out.
JsonBody(o) == [k \in {x \in DOMAIN o : o[x] # Undefined} |-> o[k]]

(***************************************************************************)
(* The handlers                                                            *)
(***************************************************************************)
Endpoints == {"gemini", "claude", "openai", "deepseek"}

\* What one run of a handler, from where it was resumed to its next await
\* or its end, does: calls made, and then suspend / respond / reject.
NoBody == [k \in {} |-> Undefined]
Calling(client, prompt) ==
  [kind |-> "suspend", pc |-> "awaitCall", v |-> Undefined, status |-> 0,
   body |-> NoBody, calls |-> <<[client |-> client, prompt |-> prompt]>>]
Suspend(p, v) ==
  [kind |-> "suspend", pc |-> p, v |-> v, status |-> 0, body |-> NoBody,
   calls |-> <<>>]
Responded(status, body) ==
  [kind |-> "respond", pc |-> "done", v |-> Undefined, status |-> status,
   body |-> body, calls |-> <<>>]
Rejected(e) ==
  [kind |-> "reject", pc |-> "rejected", v |-> e, status |-> 0,
   body |-> NoBody, calls |-> <<>>]

\* Mutant: both fields must be missing for the request to be refused.
ValidationFailsBoth(body) == ~Truthy(body.text) /\ ~Truthy(body.targetLanguage)

\* if (!text || !targetLanguage)
ValidationFails(body) == ~Truthy(body.text) \/ ~Truthy(body.targetLanguage)

ValidationError ==
  Responded(400, JsonBody([error |-> Str("Champs text et targetLanguage requis.")]))

\* The prompt, once per handler.
GeminiPrompt(body) ==
  IF Truthy(body.instructions)
  THEN "Instructions: " \o TemplateStr(body.instructions)
       \o "\n\nTraduire ce texte en " \o TemplateStr(body.targetLanguage)
       \o ":\n" \o TemplateStr(body.text)
  ELSE "Traduire ce texte en " \o TemplateStr(body.targetLanguage)
       \o ":\n" \o TemplateStr(body.text)

ClaudePrompt(body) ==
  IF Truthy(body.instructions)
  THEN "Instructions: " \o TemplateStr(body.instructions)
       \o "\n\nTraduire ce texte en " \o TemplateStr(body.targetLanguage)
       \o ":\n" \o TemplateStr(body.text)
  ELSE "Traduire ce texte en " \o TemplateStr(body.targetLanguage)
       \o ":\n" \o TemplateStr(body.text)

OpenaiPrompt(body) ==
  IF Truthy(body.instructions)
  THEN "Instructions: " \o TemplateStr(body.instructions)
       \o "\n\nTraduire ce texte en " \o TemplateStr(body.targetLanguage)
       \o ":\n" \o TemplateStr(body.text)
  ELSE "Traduire ce texte en " \o TemplateStr(body.targetLanguage)
       \o ":\n" \o TemplateStr(body.text)

\* Mutant: the earlier template, without instructions and with " :".
DeepseekPromptLegacy(body) ==
  "Traduire ce texte en " \o TemplateStr(body.targetLanguage)
  \o " :\n" \o TemplateStr(body.text)

DeepseekPrompt(body) ==
  IF Truthy(body.instructions)
  THEN "Instructions: " \o TemplateStr(body.instructions)
       \o "\n\nTraduire ce texte en " \o TemplateStr(body.targetLanguage)
       \o ":\n" \o TemplateStr(body.text)
  ELSE "Traduire ce texte en " \o TemplateStr(body.targetLanguage)
       \o ":\n" \o TemplateStr(body.text)

PromptOf(ep, body) ==
  CASE ep = "gemini" -> GeminiPrompt(body)
    [] ep = "claude" -> ClaudePrompt(body)
    [] ep = "openai" -> OpenaiPrompt(body)
    [] ep = "deepseek" -> DeepseekPrompt(body)

\* Mutant: the provider is picked by name from the request body.
ClientOfBody(ep, body) ==
  IF body.provider.t = "string" THEN body.provider.s \o "Client"
  ELSE ep \o "Client"

\* The client each handler calls; req.body plays no part.
ClientOf(ep, body) ==
  CASE ep = "gemini" -> "geminiClient"
    [] ep = "claude" -> "claudeClient"
    [] ep = "openai" -> "openaiClient"
    [] ep = "deepseek" -> "deepseekClient"

\* try { ... up to the first await
HandlerEntry(ep, body) ==
  IF ValidationFails(body) THEN ValidationError
  ELSE Calling(ClientOf(ep, body), PromptOf(ep, body))

ErrorMessage(ep) ==
  CASE ep = "gemini" -> "Erreur lors de la traduction via Gemini"
    [] ep = "claude" -> "Erreur lors de la traduction via Claude"
    [] ep = "openai" -> "Erreur lors de la traduction via OpenAI"
    [] ep = "deepseek" -> "Erreur lors de la traduction via DeepSeek"

\* catch (error) { console.error("...", error.message); return res.status(500)... }
\* Reading error.message throws when error is null or undefined, and that
\* exception leaves the handler.
CatchBlock(ep, error) ==
  LET m == Get(error, "message") IN
  IF m.thrown THEN Rejected(m.v)
  ELSE Responded(500, JsonBody([error |-> Str(ErrorMessage(ep))]))

\* Mutant: the second content block is read instead of the first.
ClaudeTranslationSecond(response) ==
  LET c == Get(response, "content") IN
  IF c.thrown THEN c
  ELSE Normal(OrElse(OptGet(OptIdx(c.v, 1), "text"), Str("(Aucune réponse Claude)")))

\* response.content?.[0]?.text || "(Aucune réponse Claude)"
ClaudeTranslation(response) ==
  LET c == Get(response, "content") IN
  IF c.thrown THEN c
  ELSE Normal(OrElse(OptGet(OptIdx(c.v, 0), "text"), Str("(Aucune réponse Claude)")))

\* Mutant: response.choices[0].message.content, without optional chaining.
OpenaiTranslationStrict(response) ==
  LET c == Get(response, "choices") IN
  IF c.thrown THEN c
  ELSE LET m == Get(OptIdx(c.v, 0), "message") IN
       IF m.thrown THEN m
       ELSE LET x == Get(m.v, "content") IN
            IF x.thrown THEN x
            ELSE Normal(OrElse(x.v, Str("(Aucune réponse GPT)")))

\* response.choices?.[0]?.message?.content || "(Aucune réponse GPT)"
OpenaiTranslation(response) ==
  LET c == Get(response, "choices") IN
  IF c.thrown THEN c
  ELSE Normal(OrElse(OptGet(OptGet(OptIdx(c.v, 0), "message"), "content"),
                     Str("(Aucune réponse GPT)")))

\* response.choices?.[0]?.message?.content || "(Aucune réponse DeepSeek)"
DeepseekTranslation(response) ==
  LET c == Get(response, "choices") IN
  IF c.thrown THEN c
  ELSE Normal(OrElse(OptGet(OptGet(OptIdx(c.v, 0), "message"), "content"),
                     Str("(Aucune réponse DeepSeek)")))

\* return res.json({ translation })
SendTranslation(translation) ==
  Responded(200, JsonBody([translation |-> translation]))

\* The handler resumed when the provider call settles with completion o.
AfterCall(ep, o) ==
  IF o.thrown THEN CatchBlock(ep, o.v)
  ELSE IF ep = "gemini" THEN
    \* const generationResponse = await result.response
    LET g == Get(o.v, "response") IN
    IF g.thrown THEN CatchBlock(ep, g.v) ELSE Suspend("awaitResponse", g.v)
  ELSE
    LET t == CASE ep = "claude" -> ClaudeTranslation(o.v)
               [] ep = "openai" -> OpenaiTranslation(o.v)
               [] ep = "deepseek" -> DeepseekTranslation(o.v) IN
    IF t.thrown THEN CatchBlock(ep, t.v) ELSE SendTranslation(t.v)

\* Gemini: const translation = await generationResponse.text()
AfterResponse(ep, generationResponse) ==
  LET f == Get(generationResponse, "text") IN
  IF f.thrown THEN CatchBlock(ep, f.v)
  ELSE LET t == Call(f.v) IN
       IF t.thrown THEN CatchBlock(ep, t.v) ELSE Suspend("awaitText", t.v)

\* Mutant: Gemini given a placeholder like the other three.
AfterTextFallback(ep, translation) ==
  SendTranslation(OrElse(translation, Str("(Aucune réponse Gemini)")))

\* Gemini: return res.json({ translation })
AfterText(ep, translation) == SendTranslation(translation)

(***************************************************************************)
(* The providers: what a call may settle with                              *)
(***************************************************************************)
\* Values a provider call (or text()) may throw or reject with.
ThrownValues == {ErrorObj("401 Unauthorized"), Null, Undefined}

\* Result texts: a translation, the prompt echoed back, nothing.
Texts(prompt) == {"Hello", prompt, ""}

\* Gemini: { response: { text() } }
GenerateContentResult(c) == Obj([response |-> Obj([text |-> Fn(c)])])

\* Claude: { content: [ { type, text } ] }
TextBlock(s) == Obj([type |-> Str("text"), text |-> Str(s)])
Message(blocks) == Obj([role |-> Str("assistant"), content |-> Arr(blocks)])

\* OpenAI and DeepSeek: { choices: [ { message: { content } } ] }
Choice(content) ==
  Obj([finish_reason |-> Str("stop"),
       message |-> Obj([role |-> Str("assistant"), content |-> content])])
ChatCompletion(choices) ==
  Obj([object |-> Str("chat.completion"), choices |-> Arr(choices)])

GeminiOutcomes(prompt) ==
  {Normal(GenerateContentResult(Normal(Str(s)))) : s \in Texts(prompt)}
  \cup {Normal(GenerateContentResult(Normal(Undefined)))}
  \cup {Normal(GenerateContentResult(Throw(e))) : e \in ThrownValues}
  \cup {Normal(Obj([usage |-> Null]))}
  \cup {Throw(e) : e \in ThrownValues}

ClaudeOutcomes(prompt) ==
  {Normal(Message(<<TextBlock(s)>>)) : s \in Texts(prompt)}
  \cup {Normal(Message(<<>>)),
        Normal(Message(<<Obj([type |-> Str("tool_use")])>>)),
        Normal(Obj([role |-> Str("assistant")])),
        Normal(Null)}
  \cup {Throw(e) : e \in ThrownValues}

ChatOutcomes(prompt) ==
  {Normal(ChatCompletion(<<Choice(Str(s))>>)) : s \in Texts(prompt)}
  \cup {Normal(ChatCompletion(<<Choice(Null)>>)),
        Normal(ChatCompletion(<<Obj([finish_reason |-> Str("stop"),
                                     message |-> Obj([role |-> Str("assistant")])])>>)),
        Normal(ChatCompletion(<<Obj([finish_reason |-> Str("stop")])>>)),
        Normal(ChatCompletion(<<>>)),
        Normal(Obj([object |-> Str("chat.completion")])),
        Normal(Null)}
  \cup {Throw(e) : e \in ThrownValues}

Outcomes(ep, prompt) ==
  CASE ep = "gemini" -> GeminiOutcomes(prompt)
    [] ep = "claude" -> ClaudeOutcomes(prompt)
    [] OTHER -> ChatOutcomes(prompt)

(***************************************************************************)
(* Requests                                                                *)
(***************************************************************************)
FieldValues(s) == {Undefined, Null, Str(""), Str(s)}

\* req.body of a JSON request after express.json(): an object; a missing key
\* reads undefined.  provider is a field no handler reads.
Bodies ==
  [text : FieldValues("Bonjour"),
   targetLanguage : FieldValues("English"),
   instructions : FieldValues("Be formal"),
   provider : {Undefined, Str("openai"), Str("claude")}]

\* The bodies sent when several requests are in flight together.
ConcBodies ==
  {b \in Bodies : /\ b.text \in {Undefined, Str("Bonjour")}
                  /\ b.targetLanguage = Str("English")
                  /\ b.instructions = Undefined
                  /\ b.provider = Str("openai")}

NoRequest ==
  [ep |-> "none",
   body |-> [text |-> Undefined, targetLanguage |-> Undefined,
             instructions |-> Undefined, provider |-> Undefined]]

\* An exception that leaves an async handler rejects the promise the handler
\* returned.  express 4 drops that promise: the rejection is unhandled, and
\* node either ends the process (the default since node 15) or only warns,
\* leaving the request unanswered.  express 5 passes it to the default error
\* handler, which answers 500 with its own page.
Builds == {"express4", "express4_warn", "express5"}

Init ==
  /\ build \in Builds
  /\ alive = TRUE
  /\ pc = [r \in Reqs |-> "idle"]
  /\ req = [r \in Reqs |-> NoRequest]
  /\ local = [r \in Reqs |-> Undefined]
  /\ calls = [r \in Reqs |-> <<>>]
  /\ settled = [r \in Reqs |-> <<>>]
  /\ sent = [r \in Reqs |-> <<>>]

\* The effect of one run of request r's handler.
Apply(r, step) ==
  /\ calls' = [calls EXCEPT ![r] = @ \o step.calls]
  /\ local' = [local EXCEPT ![r] = step.v]
  /\ pc' = [pc EXCEPT ![r] = step.pc]
  /\ sent' =
       CASE step.kind = "respond" ->
              [sent EXCEPT ![r] = Append(@, [status |-> step.status, body |-> step.body])]
         [] step.kind = "reject" /\ build = "express5" ->
              [sent EXCEPT ![r] = Append(@, [status |-> 500,
                                             body |-> [html |-> Str("TypeError")]])]
         [] OTHER -> sent
  /\ alive' = IF step.kind = "reject" /\ build = "express4" THEN FALSE ELSE alive
  /\ UNCHANGED build

\* app.post('/api/translate/<ep>', async (req, res) => { ... first await
Receive(r, ep, body) ==
  /\ alive
  /\ pc[r] = "idle"
  /\ req' = [req EXCEPT ![r] = [ep |-> ep, body |-> body]]
  /\ Apply(r, HandlerEntry(ep, body))
  /\ UNCHANGED settled

\* The provider call of request r settles and its handler resumes.
SettleCall(r) ==
  /\ alive
  /\ pc[r] = "awaitCall"
  /\ \E o \in Outcomes(req[r].ep, calls[r][1].prompt) :
       /\ settled' = [settled EXCEPT ![r] = <<o>>]
       /\ Apply(r, AfterCall(req[r].ep, o))
  /\ UNCHANGED req

\* Gemini: resumed after `await result.response`.
ResumeResponse(r) ==
  /\ alive
  /\ pc[r] = "awaitResponse"
  /\ Apply(r, AfterResponse(req[r].ep, local[r]))
  /\ UNCHANGED <<req, settled>>

\* Gemini: resumed after `await generationResponse.text()`.
ResumeText(r) ==
  /\ alive
  /\ pc[r] = "awaitText"
  /\ Apply(r, AfterText(req[r].ep, local[r]))
  /\ UNCHANGED <<req, settled>>

Serve(r, B) ==
  \/ \E ep \in Endpoints, body \in B : Receive(r, ep, body)
  \/ SettleCall(r)
  \/ ResumeResponse(r)
  \/ ResumeText(r)

\* One request, every body.
Next == Serve(1, Bodies)
Spec == Init /\ [][Next]_vars

\* Several requests in flight, their awaits interleaved.
ConcNext == \E r \in Reqs : Serve(r, ConcBodies)
ConcSpec == Init /\ [][ConcNext]_vars

(***************************************************************************)
(* Properties                                                              *)
(***************************************************************************)
Finished(r) == pc[r] \in {"done", "rejected"}
InFlight(r) == pc[r] \in {"awaitCall", "awaitResponse", "awaitText"}

\* A field that is missing or empty: undefined, null or the empty string.
MissingOrEmpty(v) == v \in {Undefined, Null, Str("")}

Response(status, body) == [status |-> status, body |-> body]

\* C1: a request whose text or targetLanguage is missing or empty is answered
\* 400 with the fixed validation message, on every endpoint and whatever
\* instructions holds, and no provider call is made for it.
C1_InvalidRequestRejected ==
  \A r \in Reqs :
    (/\ pc[r] # "idle"
     /\ \/ MissingOrEmpty(req[r].body.text)
        \/ MissingOrEmpty(req[r].body.targetLanguage))
    => /\ sent[r] = <<Response(400, [error |-> Str("Champs text et targetLanguage requis.")])>>
       /\ calls[r] = <<>>
       /\ pc[r] = "done"

C1_Witness ==
  \E r \in Reqs :
    /\ pc[r] = "done"
    /\ req[r].ep = "deepseek"
    /\ req[r].body.text = Str("Bonjour")
    /\ req[r].body.targetLanguage = Null
    /\ req[r].body.instructions = Str("Be formal")
    /\ sent[r][1].status = 400

\* C2: when the provider call throws or rejects, with any value, the endpoint
\* answers 500 with its provider's fixed message and nothing else.
C2_ProviderFailureGets500 ==
  \A r \in Reqs :
    (settled[r] # <<>> /\ settled[r][1].thrown)
    => sent[r] = <<Response(500, [error |-> Str(ErrorMessage(req[r].ep))])>>

\* The responses whose content field is empty or absent.
EmptyMessages ==
  {Message(<<TextBlock("")>>),
   Message(<<Obj([type |-> Str("tool_use")])>>),
   Message(<<>>),
   Obj([role |-> Str("assistant")])}

EmptyCompletions ==
  {ChatCompletion(<<Choice(Str(""))>>),
   ChatCompletion(<<Choice(Null)>>),
   ChatCompletion(<<Obj([finish_reason |-> Str("stop"),
                         message |-> Obj([role |-> Str("assistant")])])>>),
   ChatCompletion(<<Obj([finish_reason |-> Str("stop")])>>),
   ChatCompletion(<<>>),
   Obj([object |-> Str("chat.completion")])}

Placeholder(ep) ==
  CASE ep = "claude" -> "(Aucune réponse Claude)"
    [] ep = "openai" -> "(Aucune réponse GPT)"
    [] ep = "deepseek" -> "(Aucune réponse DeepSeek)"

\* C3: on the Claude, OpenAI and DeepSeek endpoints a call that succeeds with
\* an empty or absent content field is answered 200 with the provider's
\* placeholder as translation, never 500.
C3_EmptyResultGetsPlaceholder ==
  \A r \in Reqs :
    (/\ req[r].ep \in {"claude", "openai", "deepseek"}
     /\ settled[r] # <<>>
     /\ ~settled[r][1].thrown
     /\ settled[r][1].v \in (IF req[r].ep = "claude" THEN EmptyMessages
                             ELSE EmptyCompletions))
    => sent[r] = <<Response(200, [translation |-> Str(Placeholder(req[r].ep))])>>

C3_Witness ==
  \E r \in Reqs :
    /\ req[r].ep = "openai"
    /\ settled[r] = <<Normal(ChatCompletion(<<>>))>>
    /\ Len(sent[r]) = 1
    /\ sent[r][1].status = 200

\* The reference template of the prompt.
ReferencePrompt(body) ==
  IF MissingOrEmpty(body.instructions)
  THEN "Traduire ce texte en " \o body.targetLanguage.s \o ":\n" \o body.text.s
  ELSE "Instructions: " \o body.instructions.s \o "\n\nTraduire ce texte en "
       \o body.targetLanguage.s \o ":\n" \o body.text.s

ValidBody(body) ==
  ~MissingOrEmpty(body.text) /\ ~MissingOrEmpty(body.targetLanguage)

\* C4: for every valid request, on every endpoint, the prompt handed to the
\* provider is the reference template filled with the request's fields, with
\* the Instructions block exactly when instructions is non-empty.
C4_PromptIsTemplate ==
  \A r \in Reqs :
    (pc[r] # "idle" /\ ValidBody(req[r].body))
    => /\ Len(calls[r]) = 1
       /\ calls[r][1].prompt = ReferencePrompt(req[r].body)

C4_Witness ==
  \E r \in Reqs :
    /\ req[r].ep = "deepseek"
    /\ req[r].body.instructions = Str("Be formal")
    /\ Len(calls[r]) = 1
    /\ calls[r][1].prompt
         = "Instructions: Be formal\n\nTraduire ce texte en English:\nBonjour"

\* The response of a provider that echoes the prompt p as its result text.
Echo(ep, p) ==
  CASE ep = "gemini" -> GenerateContentResult(Normal(Str(p)))
    [] ep = "claude" -> Message(<<TextBlock(p)>>)
    [] OTHER -> ChatCompletion(<<Choice(Str(p))>>)

\* C5: when the provider echoes the prompt it received, the request ends 200
\* and its translation is the Prompt Builder's prompt for the same inputs.
C5_EchoRoundTrip ==
  \A r \in Reqs :
    (/\ Finished(r)
     /\ Len(calls[r]) = 1
     /\ settled[r] = <<Normal(Echo(req[r].ep, calls[r][1].prompt))>>)
    => sent[r] = <<Response(200, [translation |-> Str(ReferencePrompt(req[r].body))])>>

C5_Witness ==
  \E r \in Reqs :
    /\ pc[r] = "done"
    /\ req[r].ep = "claude"
    /\ ValidBody(req[r].body)
    /\ req[r].body.instructions = Str("Be formal")
    /\ settled[r] = <<Normal(Echo("claude", ReferencePrompt(req[r].body)))>>
    /\ sent[r][1].status = 200

\* C6: every 200 response carries a body of the one shape
\* { translation: <string> }.
C6_OkBodyIsTranslationString ==
  \A r \in Reqs : \A i \in DOMAIN sent[r] :
    sent[r][i].status = 200
    => /\ DOMAIN sent[r][i].body = {"translation"}
       /\ sent[r][i].body.translation.t = "string"

\* What request r's handler does when it runs with no other request about:
\* its steps composed, from the request and the way its call settled.
RunAlone(ep, body, o) ==
  LET s0 == HandlerEntry(ep, body) IN
  IF s0.kind # "suspend" THEN s0
  ELSE LET s1 == AfterCall(ep, o) IN
       IF s1.kind # "suspend" THEN s1
       ELSE LET s2 == AfterResponse(ep, s1.v) IN
            IF s2.kind # "suspend" THEN s2 ELSE AfterText(ep, s2.v)

AloneResponses(r) ==
  LET s == RunAlone(req[r].ep, req[r].body,
                    IF settled[r] = <<>> THEN Normal(Undefined) ELSE settled[r][1]) IN
  CASE s.kind = "respond" -> <<Response(s.status, s.body)>>
    [] s.kind = "reject" /\ build = "express5" ->
         <<Response(500, [html |-> Str("TypeError")])>>
    [] OTHER -> <<>>

FailedCall(q) == settled[q] # <<>> /\ settled[q][1].thrown

\* C7: with several requests in flight, a provider failure in one request
\* leaves every other request with the response it would get alone, and
\* leaves the process serving them.
C7_FailureStaysInItsRequest ==
  \A q \in Reqs : \A r \in Reqs \ {q} :
    FailedCall(q)
    => /\ InFlight(r) => alive
       /\ Finished(r) => sent[r] = AloneResponses(r)

ExpectedClient(ep) ==
  CASE ep = "gemini" -> "geminiClient"
    [] ep = "claude" -> "claudeClient"
    [] ep = "openai" -> "openaiClient"
    [] ep = "deepseek" -> "deepseekClient"

\* C8: a request makes at most one provider call, to the provider of the
\* endpoint it came in on, whatever its body names and however the call
\* ends; a refused request makes none.
C8_OneCallToOwnProvider ==
  \A r \in Reqs :
    /\ Len(calls[r]) <= 1
    /\ \A i \in DOMAIN calls[r] : calls[r][i].client = ExpectedClient(req[r].ep)
    /\ (Finished(r) /\ settled[r] # <<>>) => Len(calls[r]) = 1

C8_Witness ==
  \E r \in Reqs : \E q \in Reqs \ {r} :
    /\ pc[r] = "done"
    /\ req[r].ep = "claude"
    /\ req[r].body.provider = Str("openai")
    /\ FailedCall(r)
    /\ calls[r] = <<[client |-> "claudeClient",
                     prompt |-> "Traduire ce texte en English:\nBonjour"]>>
    /\ pc[q] = "awaitCall"

\* What text() did, for a Gemini call that resolved with a result carrying a
\* response.
TextReturned(r) ==
  /\ settled[r] # <<>>
  /\ ~settled[r][1].thrown
  /\ "response" \in DOMAIN settled[r][1].v.f
  /\ ~settled[r][1].v.f.response.f.text.ret.thrown

TextValue(r) == settled[r][1].v.f.response.f.text.ret.v

GeminiError ==
  Response(500, [error |-> Str("Erreur lors de la traduction via Gemini")])

\* C9 as claimed: a Gemini call that succeeds without extractable text ends
\* as 500 with the Gemini message.
C9_GeminiEmptyResultGets500 ==
  \A r \in Reqs :
    (/\ req[r].ep = "gemini"
     /\ Finished(r)
     /\ TextReturned(r)
     /\ MissingOrEmpty(TextValue(r)))
    => sent[r] = <<GeminiError>>

\* C9, amended: on the Gemini endpoint no placeholder is substituted.  When
\* text() returns, the request ends 200 and carries what text() returned, as
\* JSON carries it: an empty string stays empty, undefined leaves the field
\* out.  It ends as 500 with the Gemini message only when the call or the
\* extraction raised.
C9_GeminiResultPassedThrough ==
  \A r \in Reqs :
    (req[r].ep = "gemini" /\ Finished(r))
    => /\ TextReturned(r)
          => sent[r] = <<Response(200,
                           IF TextValue(r) = Undefined THEN NoBody
                           ELSE [translation |-> TextValue(r)])>>
       /\ (settled[r] # <<>> /\ sent[r] = <<GeminiError>>) => ~TextReturned(r)

C9_Witness ==
  \E r \in Reqs :
    /\ req[r].ep = "gemini"
    /\ pc[r] = "done"
    /\ TextReturned(r)
    /\ TextValue(r) = Str("")
    /\ sent[r] = <<Response(200, [translation |-> Str("")])>>

\* C10: a request whose handler has run to its end has been sent exactly one
\* response, with status 200, 400 or 500.
C10_ExactlyOneResponse ==
  \A r \in Reqs :
    Finished(r)
    => /\ Len(sent[r]) = 1
       /\ sent[r][1].status \in {200, 400, 500}

====
